---- MODULE Spec2Model ----
(***************************************************************************)
(* Model of the authentik seeding scripts                                  *)
(*   scripts/authentik/seed_outposts.py        (ensure_ldap, ensure_radius) *)
(*   scripts/authentik/seed_vaultwarden_oidc.py (ensure_vaultwarden)        *)
(* The datastore of the identity provider is the variable db.  Every ORM   *)
(* call of a script is one atomic step on db; a script may be interrupted  *)
(* between two calls by an unhandled exception of the data layer.          *)
(***************************************************************************)
EXTENDS Integers, FiniteSets, Sequences, TLC

\* ----------------------------------------------------------------- bounds
\* Number of script invocations explored in one behaviour.
MaxRuns == 2
\* client_id / client_secret values the external system may generate.
MaxCred == 2
\* Number of manual renames by an operator explored in one behaviour.
MaxRenames == 1

Creds == 1..MaxCred

\* -------------------------------------------------------------- constants
DefaultFlowSlug == "default-authentication-flow"
\* Some other flow of the identity provider (never referenced by the scripts).
OtherFlowSlug == "other-flow"
\* Python None in a flow reference.
NoFlow == "None"
\* Python None in Application.provider (primary keys start at 1).
NoProvider == 0
\* Name an operator gives a provider when renaming it (any name that is not
\* the lookup key behaves the same).
RenamedName == "Renamed Provider"
\* What the external system stores in OAuth2 provider's slug attribute; the
\* script passes no value for it.
SystemSlug == "system-assigned"

LdapDefaults ==
    [base_dn |-> "dc=nixmox,dc=lan", bind_mode |-> "direct",
     search_mode |-> "direct", mfa_support |-> TRUE]

RadiusDefaults == [shared_secret |-> "test-secret"]

OidcRedirectUri == "http://vault.nixmox.lan/oidc/callback"

OidcDefaults ==
    [client_type |-> "confidential",
     redirect_uris |-> <<OidcRedirectUri>>,
     signing_key |-> "None",
     allowed_scopes |-> <<"openid", "email", "profile">>]

\* Settings of an OAuth2 provider that was configured by hand before.
OidcCustom ==
    [client_type |-> "public",
     redirect_uris |-> <<"http://old.nixmox.lan/callback">>,
     signing_key |-> "None",
     allowed_scopes |-> <<"openid">>]

\* Per-function parameters: the literals of each ensure_* function.
LdapCfg ==
    [fn |-> "ensure_ldap", slug |-> "ldap-directory", app_name |-> "LDAP Directory",
     kind |-> "ldap", prov_name |-> "LDAP Provider", defaults |-> LdapDefaults,
     out_name |-> "LDAP Outpost", out_type |-> "ldap", key |-> "ldap"]

RadiusCfg ==
    [fn |-> "ensure_radius", slug |-> "radius-access", app_name |-> "RADIUS Access",
     kind |-> "radius", prov_name |-> "RADIUS Provider", defaults |-> RadiusDefaults,
     out_name |-> "RADIUS Outpost", out_type |-> "radius", key |-> "radius"]

VaultwardenCfg ==
    [fn |-> "ensure_vaultwarden", slug |-> "vaultwarden", app_name |-> "Vaultwarden",
     kind |-> "oauth2", prov_name |-> "Vaultwarden OIDC", defaults |-> OidcDefaults]

SeedOutposts == "seed_outposts"
SeedVaultwarden == "seed_vaultwarden_oidc"
Scripts == {SeedOutposts, SeedVaultwarden}

Range(s) == {s[i] : i \in DOMAIN s}

\* The empty mapping (no summary yet).
EmptyResult == [x \in {} |-> 0]

\* ------------------------------------------------------------- datastore
\* db.flows    : set of flow slugs
\* db.apps     : slug -> [name, provider]          (provider: pk or NoProvider)
\* db.provs    : pk -> [kind, name, authorization_flow, settings (, slug,
\*                      client_id, client_secret for oauth2)]
\* db.outposts : name -> [type, providers]         (providers: set of pks)
\* db.next_pk  : next primary key of the provider table

\* Provider pks of the given model class with the given name.
FindProvider(d, kind, name) ==
    {p \in DOMAIN d.provs : d.provs[p].kind = kind /\ d.provs[p].name = name}

ProviderPk(d, kind, name) == CHOOSE p \in FindProvider(d, kind, name) : TRUE

\* Mutant: the lookup never raises (filter(...).first() instead of get()).
FlowExists_Always(d, slug) == TRUE

\* Flow.objects.get(slug=...): succeeds iff the flow exists.
FlowExists(d, slug) == slug \in d.flows

\* Application.objects.get_or_create(slug=..., defaults={"name": ...})
GetOrCreateApplication(d, slug, name) ==
    IF slug \in DOMAIN d.apps THEN d
    ELSE [d EXCEPT !.apps = @ @@ (slug :> [name |-> name, provider |-> NoProvider])]

\* <Provider class>.objects.get_or_create(name=..., defaults=...): the record
\* inserted when none with that name exists.
NewProvider(c, flow, cid, sec) ==
    IF c.kind = "oauth2"
    THEN [kind |-> c.kind, name |-> c.prov_name, authorization_flow |-> flow,
          settings |-> c.defaults, slug |-> SystemSlug,
          client_id |-> cid, client_secret |-> sec]
    ELSE [kind |-> c.kind, name |-> c.prov_name, authorization_flow |-> NoFlow,
          settings |-> c.defaults]

\* Mutant: create() instead of get_or_create().
GetOrCreateProvider_Create(d, c, flow, cid, sec) ==
    [d EXCEPT !.provs = @ @@ (d.next_pk :> NewProvider(c, flow, cid, sec)),
              !.next_pk = @ + 1]

\* Mutant: an existing OAuth2 provider gets a fresh secret (update_or_create).
GetOrCreateProvider_Rotate(d, c, flow, cid, sec) ==
    LET found == FindProvider(d, c.kind, c.prov_name)
    IN  IF found # {}
        THEN IF c.kind = "oauth2"
             THEN [d EXCEPT !.provs[CHOOSE p \in found : TRUE].client_secret = sec]
             ELSE d
        ELSE [d EXCEPT !.provs = @ @@ (d.next_pk :> NewProvider(c, flow, cid, sec)),
                       !.next_pk = @ + 1]

GetOrCreateProvider(d, c, flow, cid, sec) ==
    IF FindProvider(d, c.kind, c.prov_name) # {} THEN d
    ELSE [d EXCEPT !.provs = @ @@ (d.next_pk :> NewProvider(c, flow, cid, sec)),
                   !.next_pk = @ + 1]

\* Mutant: the link is only set when the application has none.
LinkIfDifferent_IfNone(d, slug, p) ==
    IF d.apps[slug].provider = NoProvider
    THEN [d EXCEPT !.apps[slug].provider = p]
    ELSE d

\* if getattr(app, "provider", None) != prov: app.provider = prov; app.save()
\* Whether or not the comparison finds the objects equal, the stored link
\* afterwards is p: the save writes the value the guard would have skipped.
LinkIfDifferent(d, slug, p) ==
    IF d.apps[slug].provider # p
    THEN [d EXCEPT !.apps[slug].provider = p]
    ELSE d

\* Mutant: the link is only set when the application has none.
LinkAlways_IfNone(d, slug, p) ==
    IF d.apps[slug].provider = NoProvider
    THEN [d EXCEPT !.apps[slug].provider = p]
    ELSE d

\* app.provider = prov; app.save()   (unconditional)
LinkAlways(d, slug, p) == [d EXCEPT !.apps[slug].provider = p]

\* Mutant: the flow is only set when the provider has none.
SetFlowIfDifferent_IfNone(d, p, flow) ==
    IF d.provs[p].authorization_flow = NoFlow
    THEN [d EXCEPT !.provs[p].authorization_flow = flow]
    ELSE d

\* if getattr(prov, "authorization_flow_id", None) != flow.id: ...; prov.save()
SetFlowIfDifferent(d, p, flow) ==
    IF d.provs[p].authorization_flow # flow
    THEN [d EXCEPT !.provs[p].authorization_flow = flow]
    ELSE d

\* Mutant: an existing outpost is replaced by a fresh one.
GetOrCreateOutpost_Recreate(d, name, type) ==
    IF name \in DOMAIN d.outposts
    THEN [d EXCEPT !.outposts[name] = [type |-> type, providers |-> {}]]
    ELSE [d EXCEPT !.outposts = @ @@ (name :> [type |-> type, providers |-> {}])]

\* Outpost.objects.get_or_create(name=..., defaults={"type": ...})
GetOrCreateOutpost(d, name, type) ==
    IF name \in DOMAIN d.outposts THEN d
    ELSE [d EXCEPT !.outposts = @ @@ (name :> [type |-> type, providers |-> {}])]

\* Mutant: out.providers.set([prov]) instead of add(prov).
AddProvider_Set(d, name, p) == [d EXCEPT !.outposts[name].providers = {p}]

\* out.providers.add(prov)
AddProvider(d, name, p) == [d EXCEPT !.outposts[name].providers = @ \cup {p}]

\* Mutant: the summary reports the application's display name.
OutpostSummary_Name(d, c, p) ==
    [application |-> d.apps[c.slug].name, provider |-> d.provs[p].name,
     outpost |-> c.out_name]

\* return {"application": app.slug, "provider": prov.name, "outpost": out.name}
OutpostSummary(d, c, p) ==
    [application |-> c.slug, provider |-> d.provs[p].name, outpost |-> c.out_name]

\* {"app": app.slug, "provider": prov.slug, "client_id": ..., "client_secret": ...}
VaultwardenSummary(d, c, p) ==
    [app |-> c.slug, provider |-> d.provs[p].slug,
     client_id |-> d.provs[p].client_id, client_secret |-> d.provs[p].client_secret]

\* ------------------------------------------------------- whole functions
\* ensure_ldap / ensure_radius run without interruption on a datastore that
\* holds the default flow.
EnsureOutpostFull(d, c) ==
    LET d1 == GetOrCreateApplication(d, c.slug, c.app_name)
        d2 == GetOrCreateProvider(d1, c, NoFlow, 0, 0)
        p  == ProviderPk(d2, c.kind, c.prov_name)
        d3 == LinkIfDifferent(d2, c.slug, p)
        d4 == SetFlowIfDifferent(d3, p, DefaultFlowSlug)
        d5 == GetOrCreateOutpost(d4, c.out_name, c.out_type)
    IN  AddProvider(d5, c.out_name, p)

\* ensure_vaultwarden run without interruption; cid, sec are the credentials
\* the external system generates if it has to create the provider.
EnsureVaultwardenFull(d, cid, sec) ==
    LET c  == VaultwardenCfg
        d1 == GetOrCreateApplication(d, c.slug, c.app_name)
        d2 == GetOrCreateProvider(d1, c, DefaultFlowSlug, cid, sec)
        p  == ProviderPk(d2, c.kind, c.prov_name)
    IN  LinkAlways(d2, c.slug, p)

\* The final datastores an uninterrupted run of script s can reach from d.
FullRun(s, d) ==
    IF s = SeedOutposts
    THEN {EnsureOutpostFull(EnsureOutpostFull(d, LdapCfg), RadiusCfg)}
    ELSE {EnsureVaultwardenFull(d, cid, sec) : cid \in Creds, sec \in Creds}

\* ------------------------------------------------------------------ state
VARIABLES
    db,        \* the identity provider's datastore
    script,    \* the script being run (or run last)
    fn,        \* the ensure_* function being executed
    pc,        \* position inside fn ("idle": no script is running)
    prov,      \* local variable prov (pk of the provider resolved by fn)
    result,    \* summary built so far by the running script
    last,      \* [script, outcome, summary] of the run that ended last
    prev,      \* the same for the run before the current (or last) one
    startDb,   \* history: datastore when the current (or last) run started
    origin,    \* history: datastore when the current chain of interrupted runs started
    chained,   \* history: the current run directly follows an interrupted run of the same script
    succ,      \* history: nothing touched the datastore between the previous run and this one
    touched,   \* history: an operator changed the datastore since the last run ended
    runs,      \* number of runs started
    renames    \* number of operator renames

vars == <<db, script, fn, pc, prov, result, last, prev, startDb, origin,
          chained, succ, touched, runs, renames>>

OutpostCfgs == {LdapCfg, RadiusCfg}
AllCfgs == {LdapCfg, RadiusCfg, VaultwardenCfg}
Cfg(f) == CHOOSE c \in AllCfgs : c.fn = f

NoRun == [script |-> "none", outcome |-> "none", summary |-> EmptyResult]

\* ---------------------------------------------------- pre-existing records
\* Primary keys of providers that exist before the first run.
PrePk(kind) == CASE kind = "ldap" -> 1 [] kind = "radius" -> 2 [] OTHER -> 3
FirstFreePk == Cardinality(AllCfgs) + 1

ProvChoices == {"absent", DefaultFlowSlug, OtherFlowSlug, NoFlow}
AppChoices == {"absent", "unlinked", "linked"}
OutChoices == {"absent", "empty", "wrongtype", "member"}

PreProvider(c, flow, custom) ==
    IF c.kind = "oauth2"
    THEN [kind |-> c.kind, name |-> c.prov_name, authorization_flow |-> flow,
          settings |-> IF custom THEN OidcCustom ELSE OidcDefaults,
          slug |-> SystemSlug, client_id |-> 1, client_secret |-> 1]
    ELSE [kind |-> c.kind, name |-> c.prov_name, authorization_flow |-> flow,
          settings |-> c.defaults]

\* A datastore as an operator or an earlier deployment may have left it:
\* provChoice, appChoice, outChoice say which of the records the scripts look
\* up already exist, and in which condition.
PreDb(hasFlow, provChoice, custom, appChoice, outChoice) ==
    LET cfgsP == IF provChoice = "absent" THEN {} ELSE AllCfgs
        cfgsA == IF appChoice = "absent" THEN {} ELSE AllCfgs
        cfgsO == IF outChoice = "absent" THEN {} ELSE OutpostCfgs
        cfgOfPk(p) == CHOOSE c \in AllCfgs : PrePk(c.kind) = p
        cfgOfSlug(s) == CHOOSE c \in AllCfgs : c.slug = s
        cfgOfOut(n) == CHOOSE c \in OutpostCfgs : c.out_name = n
    IN  [flows |-> (IF hasFlow THEN {DefaultFlowSlug} ELSE {})
                       \cup (IF provChoice = OtherFlowSlug THEN {OtherFlowSlug} ELSE {}),
         provs |-> [p \in {PrePk(c.kind) : c \in cfgsP} |->
                       PreProvider(cfgOfPk(p), provChoice, custom)],
         apps |-> [s \in {c.slug : c \in cfgsA} |->
                       [name |-> "Existing",
                        provider |-> IF appChoice = "linked"
                                     THEN PrePk(cfgOfSlug(s).kind) ELSE NoProvider]],
         outposts |-> [n \in {c.out_name : c \in cfgsO} |->
                       [type |-> IF outChoice = "wrongtype" THEN "proxy"
                                 ELSE cfgOfOut(n).out_type,
                        providers |-> IF outChoice = "member"
                                      THEN {PrePk(cfgOfOut(n).kind)} ELSE {}]],
         next_pk |-> FirstFreePk]

Init ==
    /\ \E hasFlow \in BOOLEAN, provChoice \in ProvChoices, custom \in BOOLEAN,
          appChoice \in AppChoices, outChoice \in OutChoices :
          /\ provChoice = DefaultFlowSlug => hasFlow
          /\ provChoice = "absent" => ~custom /\ appChoice # "linked" /\ outChoice # "member"
          /\ db = PreDb(hasFlow, provChoice, custom, appChoice, outChoice)
    /\ script = "none"
    /\ fn = "none"
    /\ pc = "idle"
    /\ prov = NoProvider
    /\ result = EmptyResult
    /\ last = NoRun
    /\ prev = NoRun
    /\ startDb = db
    /\ origin = db
    /\ chained = FALSE
    /\ succ = FALSE
    /\ touched = FALSE
    /\ runs = 0
    /\ renames = 0

\* ---------------------------------------------------------------- actions
hist == <<startDb, origin, chained, succ, runs, renames>>

\* A script process is started (python <script>, __main__ block entered).
Start(s) ==
    /\ pc = "idle"
    /\ runs < MaxRuns
    /\ script' = s
    /\ fn' = IF s = SeedOutposts THEN "ensure_ldap" ELSE "ensure_vaultwarden"
    /\ pc' = "flow"
    /\ prov' = NoProvider
    /\ result' = EmptyResult
    /\ prev' = last
    /\ startDb' = db
    /\ chained' = (last.script = s /\ last.outcome = "aborted" /\ ~touched)
    /\ origin' = IF chained' THEN origin ELSE db
    /\ succ' = ~touched
    /\ touched' = FALSE
    /\ runs' = runs + 1
    /\ UNCHANGED <<db, last, renames>>

\* The process ends with an unhandled exception.
Fail(outcome) ==
    /\ pc' = "idle"
    /\ last' = [script |-> script, outcome |-> outcome, summary |-> EmptyResult]
    /\ UNCHANGED <<db, script, fn, prov, result, prev, touched>>
    /\ UNCHANGED hist

\* flow = Flow.objects.get(slug="default-authentication-flow")
GetFlow(c) ==
    /\ pc = "flow"
    /\ IF FlowExists(db, DefaultFlowSlug)
       THEN /\ pc' = "app"
            /\ UNCHANGED <<db, script, fn, prov, result, last, prev, touched>>
            /\ UNCHANGED hist
       ELSE Fail("error")

\* app, _ = Application.objects.get_or_create(...)
GetOrCreateApp(c) ==
    /\ pc = "app"
    /\ db' = GetOrCreateApplication(db, c.slug, c.app_name)
    /\ pc' = "prov"
    /\ UNCHANGED <<script, fn, prov, result, last, prev, touched>>
    /\ UNCHANGED hist

\* prov, _ = <Provider class>.objects.get_or_create(...)
GetOrCreateProv(c) ==
    /\ pc = "prov"
    /\ \E cid \in Creds, sec \in Creds :
          db' = GetOrCreateProvider(db, c,
                    IF c.kind = "oauth2" THEN DefaultFlowSlug ELSE NoFlow, cid, sec)
    /\ prov' = ProviderPk(db', c.kind, c.prov_name)
    /\ pc' = "link"
    /\ UNCHANGED <<script, fn, result, last, prev, touched>>
    /\ UNCHANGED hist

\* seed_outposts.py: link application to provider if not set
LinkApp(c) ==
    /\ pc = "link"
    /\ db' = LinkIfDifferent(db, c.slug, prov)
    /\ pc' = "setflow"
    /\ UNCHANGED <<script, fn, prov, result, last, prev, touched>>
    /\ UNCHANGED hist

\* seed_outposts.py: attach authorization flow expected by outposts
SetFlow(c) ==
    /\ pc = "setflow"
    /\ db' = SetFlowIfDifferent(db, prov, DefaultFlowSlug)
    /\ pc' = "outpost"
    /\ UNCHANGED <<script, fn, prov, result, last, prev, touched>>
    /\ UNCHANGED hist

\* out, _ = Outpost.objects.get_or_create(...)
GetOrCreateOut(c) ==
    /\ pc = "outpost"
    /\ db' = GetOrCreateOutpost(db, c.out_name, c.out_type)
    /\ pc' = "add"
    /\ UNCHANGED <<script, fn, prov, result, last, prev, touched>>
    /\ UNCHANGED hist

\* out.providers.add(prov)
AddToOutpost(c) ==
    /\ pc = "add"
    /\ db' = AddProvider(db, c.out_name, prov)
    /\ pc' = "return"
    /\ UNCHANGED <<script, fn, prov, result, last, prev, touched>>
    /\ UNCHANGED hist

\* return {...}; in __main__ ensure_radius() is evaluated after ensure_ldap()
ReturnOutpost(c) ==
    /\ pc = "return"
    /\ result' = result @@ (c.key :> OutpostSummary(db, c, prov))
    /\ IF c.fn = "ensure_ldap"
       THEN fn' = "ensure_radius" /\ pc' = "flow"
       ELSE fn' = fn /\ pc' = "print"
    /\ UNCHANGED <<db, script, prov, last, prev, touched>>
    /\ UNCHANGED hist

EnsureOutpost(c) ==
    /\ fn = c.fn
    /\ \/ GetFlow(c)
       \/ GetOrCreateApp(c)
       \/ GetOrCreateProv(c)
       \/ LinkApp(c)
       \/ SetFlow(c)
       \/ GetOrCreateOut(c)
       \/ AddToOutpost(c)
       \/ ReturnOutpost(c)

ensure_ldap == EnsureOutpost(LdapCfg)

ensure_radius == EnsureOutpost(RadiusCfg)

\* seed_vaultwarden_oidc.py: app.provider = prov; app.save(); return app, prov
LinkAndReturn(c) ==
    /\ pc = "link"
    /\ db' = LinkAlways(db, c.slug, prov)
    /\ result' = VaultwardenSummary(db', c, prov)
    /\ pc' = "print"
    /\ UNCHANGED <<script, fn, prov, last, prev, touched>>
    /\ UNCHANGED hist

ensure_vaultwarden ==
    /\ fn = VaultwardenCfg.fn
    /\ \/ GetFlow(VaultwardenCfg)
       \/ GetOrCreateApp(VaultwardenCfg)
       \/ GetOrCreateProv(VaultwardenCfg)
       \/ LinkAndReturn(VaultwardenCfg)

\* __main__: print the summary; the process exits normally.
main ==
    /\ pc = "print"
    /\ pc' = "idle"
    /\ last' = [script |-> script, outcome |-> "done", summary |-> result]
    /\ UNCHANGED <<db, script, fn, prov, result, prev, touched>>
    /\ UNCHANGED hist

\* Positions at which the next statement is a call into the data layer.
OrmSteps == {"flow", "app", "prov", "link", "setflow", "outpost", "add"}

\* The data layer raises (connectivity, constraint violation): nothing is
\* caught, the process dies with what it has written so far.
Abort ==
    /\ pc \in OrmSteps
    /\ Fail("aborted")

\* An operator renames a provider by hand after a run has completed.
OperatorRename ==
    /\ pc = "idle"
    /\ last.outcome = "done"
    /\ renames < MaxRenames
    /\ \E p \in DOMAIN db.provs :
          /\ db.provs[p].name \in {c.prov_name : c \in AllCfgs}
          /\ FindProvider(db, db.provs[p].kind, RenamedName) = {}
          /\ db' = [db EXCEPT !.provs[p].name = RenamedName]
    /\ touched' = TRUE
    /\ renames' = renames + 1
    /\ UNCHANGED <<script, fn, pc, prov, result, last, prev, startDb, origin,
                   chained, succ, runs>>

Next ==
    \/ \E s \in Scripts : Start(s)
    \/ ensure_ldap
    \/ ensure_radius
    \/ ensure_vaultwarden
    \/ main
    \/ Abort
    \/ OperatorRename

Spec == Init /\ [][Next]_vars

\* ---------------------------------------------------------------- claims
\* Script s has just run to completion and nothing has touched the datastore since.
Done(s) == pc = "idle" /\ last.outcome = "done" /\ last.script = s /\ ~touched

\* ensure_ldap / ensure_radius (c) has returned in the current or last run of
\* seed_outposts.py and nothing but that script has touched the datastore since.
Returned(c) == script = SeedOutposts /\ c.key \in DOMAIN result /\ ~touched

\* The datastore held the default flow and nothing else when the run started.
StartedEmpty ==
    /\ startDb.flows = {DefaultFlowSlug}
    /\ DOMAIN startDb.apps = {}
    /\ DOMAIN startDb.provs = {}
    /\ DOMAIN startDb.outposts = {}

\* C1: a script run to completion twice in succession leaves, after the second
\* run, the datastore the first run left, and reports the same summary.
C1_Idempotent ==
    \A s \in Scripts :
        (Done(s) /\ succ /\ prev.script = s /\ prev.outcome = "done")
            => /\ db = startDb
               /\ last.summary = prev.summary

C1_Witness ==
    /\ Done(SeedOutposts)
    /\ succ /\ prev.script = SeedOutposts /\ prev.outcome = "done"
    /\ DOMAIN last.summary = {"ldap", "radius"}

\* C2: when the default flow is missing, a run of either script ends with an
\* error and has changed nothing in the datastore.
C2_NoFlowNoChange ==
    (runs > 0 /\ ~touched /\ DefaultFlowSlug \notin startDb.flows)
        => /\ db = startDb
           /\ pc \in {"flow", "idle"}
           /\ pc = "idle" => last.outcome \in {"error", "aborted"}

C2_Witness ==
    /\ pc = "idle" /\ runs = 2
    /\ DefaultFlowSlug \notin startDb.flows
    /\ last.outcome = "error" /\ prev.outcome = "error"
    /\ last.script # prev.script

\* The links ensure_ldap / ensure_radius establish: the outpost holds the
\* provider, the application is linked to it, its flow is the default flow.
OutpostLinked(c) ==
    /\ c.out_name \in DOMAIN db.outposts
    /\ c.slug \in DOMAIN db.apps
    /\ \E p \in FindProvider(db, c.kind, c.prov_name) :
          /\ p \in db.outposts[c.out_name].providers
          /\ db.apps[c.slug].provider = p
          /\ db.provs[p].authorization_flow = DefaultFlowSlug

\* C3 as stated: after ensure_ldap / ensure_radius the outpost has the
\* protocol's type, whatever existed before, and the links are in place.
C3_Original ==
    \A c \in OutpostCfgs :
        Returned(c) => /\ OutpostLinked(c)
                       /\ db.outposts[c.out_name].type = c.out_type

\* C3 amended: after ensure_ldap / ensure_radius the links are in place; the
\* outpost has the protocol's type if the run created it and otherwise the
\* type it had before the run.
C3_OutpostPost ==
    \A c \in OutpostCfgs :
        Returned(c) => /\ OutpostLinked(c)
                       /\ db.outposts[c.out_name].type =
                             IF c.out_name \in DOMAIN startDb.outposts
                             THEN startDb.outposts[c.out_name].type
                             ELSE c.out_type

C3_Witness ==
    /\ Done(SeedOutposts)
    /\ Returned(LdapCfg) /\ Returned(RadiusCfg)
    /\ LdapCfg.out_name \notin DOMAIN startDb.outposts
    /\ \E p \in FindProvider(startDb, "ldap", LdapCfg.prov_name) :
          startDb.provs[p].authorization_flow = OtherFlowSlug
    /\ db.outposts[LdapCfg.out_name].type = "ldap"

OidcTargetSettings(p) ==
    /\ Range(db.provs[p].settings.allowed_scopes) = {"openid", "email", "profile"}
    /\ db.provs[p].settings.redirect_uris = <<OidcRedirectUri>>

\* C4 as stated: after ensure_vaultwarden the application is linked to the
\* provider "Vaultwarden OIDC", which has the scopes and the redirect URI of
\* the script, whether or not it existed before.
C4_Original ==
    Done(SeedVaultwarden) =>
        /\ VaultwardenCfg.slug \in DOMAIN db.apps
        /\ \E p \in FindProvider(db, "oauth2", VaultwardenCfg.prov_name) :
              /\ db.apps[VaultwardenCfg.slug].provider = p
              /\ OidcTargetSettings(p)

\* C4 amended: after ensure_vaultwarden the application is linked to the
\* provider "Vaultwarden OIDC"; the provider has the scopes and the redirect
\* URI of the script if the run created it and otherwise the settings it had
\* before the run.
C4_OidcPost ==
    Done(SeedVaultwarden) =>
        /\ VaultwardenCfg.slug \in DOMAIN db.apps
        /\ \E p \in FindProvider(db, "oauth2", VaultwardenCfg.prov_name) :
              /\ db.apps[VaultwardenCfg.slug].provider = p
              /\ IF p \in DOMAIN startDb.provs
                 THEN db.provs[p].settings = startDb.provs[p].settings
                 ELSE OidcTargetSettings(p)

C4_Witness ==
    /\ Done(SeedVaultwarden)
    /\ FindProvider(startDb, "oauth2", VaultwardenCfg.prov_name) = {}
    /\ \E p \in FindProvider(db, "oauth2", VaultwardenCfg.prov_name) :
          db.apps[VaultwardenCfg.slug].provider = p /\ OidcTargetSettings(p)

\* One step keeps every OAuth2 provider with its credentials, and a run of
\* the OIDC seeder that found the provider reports that provider's credentials.
CredentialsKept ==
    /\ \A p \in DOMAIN db.provs :
          db.provs[p].kind = "oauth2" =>
              /\ p \in DOMAIN db'.provs
              /\ db'.provs[p].client_id = db.provs[p].client_id
              /\ db'.provs[p].client_secret = db.provs[p].client_secret
    /\ (pc = "print" /\ pc' = "idle" /\ script = SeedVaultwarden) =>
          \A p \in FindProvider(startDb, "oauth2", VaultwardenCfg.prov_name) :
              /\ prov = p
              /\ last'.summary.client_id = startDb.provs[p].client_id
              /\ last'.summary.client_secret = startDb.provs[p].client_secret

\* C5: the credentials of an existing OAuth2 provider are never changed, and
\* every run of ensure_vaultwarden that finds the provider returns it with
\* the credentials it was created with.
C5_CredentialsStable == [][CredentialsKept]_vars

C5_Witness ==
    /\ Done(SeedVaultwarden)
    /\ prev.script = SeedVaultwarden /\ prev.outcome = "done"
    /\ \E p \in FindProvider(startDb, "oauth2", VaultwardenCfg.prov_name) :
          /\ p >= FirstFreePk
          /\ last.summary.client_secret = startDb.provs[p].client_secret

ExpectedSummary ==
    [ldap |-> [application |-> "ldap-directory", provider |-> "LDAP Provider",
               outpost |-> "LDAP Outpost"],
     radius |-> [application |-> "radius-access", provider |-> "RADIUS Provider",
                 outpost |-> "RADIUS Outpost"]]

\* C6: run on a datastore that holds only the default flow, the LDAP/RADIUS
\* seeder reports exactly the expected mapping and leaves exactly two
\* applications, two providers and two outposts with those keys.
C6_FreshSummary ==
    (Done(SeedOutposts) /\ StartedEmpty) =>
        /\ last.summary = ExpectedSummary
        /\ DOMAIN db.apps = {"ldap-directory", "radius-access"}
        /\ Cardinality(DOMAIN db.provs) = 2
        /\ {<<db.provs[p].kind, db.provs[p].name>> : p \in DOMAIN db.provs}
              = {<<"ldap", "LDAP Provider">>, <<"radius", "RADIUS Provider">>}
        /\ DOMAIN db.outposts = {"LDAP Outpost", "RADIUS Outpost"}

C6_Witness ==
    /\ Done(SeedOutposts) /\ StartedEmpty
    /\ last.summary = ExpectedSummary

\* One step deletes nothing: applications, providers (by primary key and
\* class), outposts and outpost memberships stay, the flows are unchanged.
NothingRemoved ==
    /\ DOMAIN db.apps \subseteq DOMAIN db'.apps
    /\ DOMAIN db.provs \subseteq DOMAIN db'.provs
    /\ \A p \in DOMAIN db.provs : db'.provs[p].kind = db.provs[p].kind
    /\ DOMAIN db.outposts \subseteq DOMAIN db'.outposts
    /\ \A o \in DOMAIN db.outposts :
          db.outposts[o].providers \subseteq db'.outposts[o].providers
    /\ db'.flows = db.flows

\* C7: over any sequence of complete or interrupted runs, no application,
\* provider, outpost or outpost membership is removed or replaced, and the
\* flows are never created or modified.
C7_NeverDeletes == [][NothingRemoved]_vars

C7_Witness ==
    /\ pc = "idle" /\ last.outcome = "aborted" /\ runs = 2
    /\ prev.outcome = "done"
    /\ Cardinality(DOMAIN db.provs) > Cardinality(DOMAIN startDb.provs)
    /\ \E o \in DOMAIN startDb.outposts : startDb.outposts[o].providers # {}

\* C8 as stated: after a seeder completes, the provider it resolved has the
\* default flow as authorization flow, for all three provider classes, also
\* when the provider existed before with another flow or none.
C8_Original ==
    /\ \A c \in OutpostCfgs :
          Returned(c) => \A p \in FindProvider(db, c.kind, c.prov_name) :
                             db.provs[p].authorization_flow = DefaultFlowSlug
    /\ Done(SeedVaultwarden) =>
          db.provs[prov].authorization_flow = DefaultFlowSlug

\* C8 amended: after ensure_ldap / ensure_radius the provider has the default
\* flow as authorization flow, also when it existed before with another flow
\* or none; after ensure_vaultwarden the OAuth2 provider has the default flow
\* if the run created it and otherwise the flow it had before the run.
C8_ProviderFlow ==
    /\ \A c \in OutpostCfgs :
          Returned(c) => /\ FindProvider(db, c.kind, c.prov_name) # {}
                         /\ \A p \in FindProvider(db, c.kind, c.prov_name) :
                               db.provs[p].authorization_flow = DefaultFlowSlug
    /\ Done(SeedVaultwarden) =>
          /\ prov \in FindProvider(db, "oauth2", VaultwardenCfg.prov_name)
          /\ db.provs[prov].authorization_flow =
                IF prov \in DOMAIN startDb.provs
                THEN startDb.provs[prov].authorization_flow
                ELSE DefaultFlowSlug

C8_Witness ==
    /\ Returned(RadiusCfg)
    /\ \E p \in FindProvider(startDb, "radius", RadiusCfg.prov_name) :
          /\ startDb.provs[p].authorization_flow = NoFlow
          /\ db.provs[p].authorization_flow = DefaultFlowSlug

\* C9: a run that completes directly after interrupted runs of the same
\* script ends in a datastore that one uninterrupted run from the datastore
\* before the first interrupted run ends in.
C9_Converges ==
    \A s \in Scripts : (Done(s) /\ chained) => db \in FullRun(s, origin)

C9_Witness ==
    /\ Done(SeedOutposts) /\ chained
    /\ startDb # origin
    /\ LdapCfg.slug \in DOMAIN startDb.apps
    /\ startDb.apps[LdapCfg.slug].provider = NoProvider
    /\ FindProvider(startDb, "ldap", LdapCfg.prov_name) # {}

\* C10: when the provider of ensure_ldap / ensure_radius was renamed after a
\* completed run, the next run creates a new provider under the original
\* name, links the application to it and adds it to the outpost, and the
\* renamed provider still exists and is still a member of the outpost.
C10_RenameCreatesParallel ==
    \A c \in OutpostCfgs :
        \A r \in FindProvider(startDb, c.kind, RenamedName) :
            ( /\ Returned(c)
              /\ FindProvider(startDb, c.kind, c.prov_name) = {}
              /\ c.out_name \in DOMAIN startDb.outposts
              /\ r \in startDb.outposts[c.out_name].providers )
            => /\ r \in DOMAIN db.provs
               /\ db.provs[r].name = RenamedName
               /\ r \in db.outposts[c.out_name].providers
               /\ \E n \in FindProvider(db, c.kind, c.prov_name) :
                     /\ n \notin DOMAIN startDb.provs
                     /\ db.apps[c.slug].provider = n
                     /\ n \in db.outposts[c.out_name].providers

C10_Witness ==
    /\ Done(SeedOutposts) /\ renames = 1
    /\ prev.script = SeedOutposts /\ prev.outcome = "done"
    /\ \E r \in FindProvider(startDb, "ldap", RenamedName) :
          /\ startDb.apps[LdapCfg.slug].provider = r
          /\ r \in startDb.outposts[LdapCfg.out_name].providers
          /\ r \in db.outposts[LdapCfg.out_name].providers
          /\ db.apps[LdapCfg.slug].provider # r

====
